---- MODULE Spec2Model ----
(***************************************************************************)
(* Artifact verification of p2 (pkg/auth/artifact_verifier.go).            *)
(*                                                                         *)
(* A caller holds an open local copy of an artifact (an *os.File: content  *)
(* plus read offset) and the artifact's URL, and asks a verifier           *)
(* (nopVerifier, BuildManifestVerifier, BuildVerifier, CompositeVerifier)  *)
(* to VerifyHoistArtifact.  Every blocking operation of a call (TempDir,   *)
(* CopyLocal, ReadFile, ReadAll, Seek, the deferred RemoveAll) is one step *)
(* of the call, so that calls of several callers interleave at exactly the *)
(* points where the Go scheduler can interleave them.                      *)
(*                                                                         *)
(* Bytes are sequences of small naturals.  SHA-256 is modelled as an       *)
(* injective fixed-length encoding (collision freedom), an OpenPGP         *)
(* detached signature as the pair (signing key, signed bytes) plus its     *)
(* encoding (raw or ASCII armor).                                          *)
(***************************************************************************)
EXTENDS Integers, Sequences, FiniteSets, TLC

\* ------------------------------------------------------------------ bounds
MaxLen == 1          \* longest artifact, in bytes
MaxDirs == 2         \* names ioutil.TempDir can choose from

Byte == {0, 1}
DirNames == 1..MaxDirs
Callers == {1, 2}    \* goroutines that may call a verifier
SeqCallers == {1}    \* the single caller of the sequential specification

\* ------------------------------------------------------- optional values
None == {}
Some(x) == {x}
The(s) == CHOOSE x \in s : TRUE

\* ------------------------------------------------------------ error kinds
\* nil and one kind per util.Errorf / return site of the file.
OK == "nil"
UnsupportedScheme == "UnsupportedScheme"
TempDirError == "TempDirError"
FetchFailure == "FetchFailure"
ReadFileError == "ReadFileError"
SignatureInvalid == "SignatureInvalid"
IOError == "IOError"
ParseError == "ParseError"
DigestMismatch == "DigestMismatch"
NotRun == "not run"

\* ------------------------------------------------------------------- bytes
RECURSIVE SeqsUpTo(_)
SeqsUpTo(n) ==
  IF n = 0 THEN {<<>>}
  ELSE LET shorter == SeqsUpTo(n - 1)
       IN shorter \cup {Append(s, b) : s \in {t \in shorter : Len(t) = n - 1}, b \in Byte}

Artifacts == SeqsUpTo(MaxLen)

\* the bytes ioutil.ReadAll returns from a file at the given offset
RestOf(content, offset) == SubSeq(content, offset + 1, Len(content))

\* the artifact with its last byte flipped (or one byte added to an empty one)
Altered(content) ==
  IF content = <<>> THEN <<1>>
  ELSE [content EXCEPT ![Len(content)] = 1 - @]

\* sha256.Sum256 followed by hex.EncodeToString: a fixed-length string,
\* different for different inputs.
DigestLen == MaxLen + 1
Sha256Hex(bytes) ==
  [i \in 1..DigestLen |->
     IF i = 1 THEN Len(bytes)
     ELSE IF i - 1 <= Len(bytes) THEN bytes[i - 1] ELSE 0]

\* --------------------------------------------------------------- manifests
\* A manifest file is a YAML document.  Its first byte tells its shape:
\* the mapping "artifact_sha: <rest>", a mapping with another key, or text
\* that is not YAML; the empty file is the empty document.
YamlArtifactSha == 10
YamlOtherKey == 11
YamlMalformed == 12

ManifestFor(digest) == <<YamlArtifactSha>> \o digest

\* yaml.Unmarshal into struct{ArtifactDigest string `yaml:"artifact_sha"`}
yamlUnmarshal(manifestBytes) ==
  IF manifestBytes = <<>> THEN [err |-> FALSE, ArtifactDigest |-> <<>>]
  ELSE IF Head(manifestBytes) = YamlArtifactSha
    THEN [err |-> FALSE, ArtifactDigest |-> Tail(manifestBytes)]
  ELSE IF Head(manifestBytes) = YamlOtherKey
    THEN [err |-> FALSE, ArtifactDigest |-> <<>>]
  ELSE [err |-> TRUE, ArtifactDigest |-> <<>>]

\* -------------------------------------------------------------- signatures
TrustedKey == "build-system"
UntrustedKey == "stranger"
Keyring == {TrustedKey}      \* LoadKeyring(keyringPath), fixed at construction

Signature(enc, key, over) == [enc |-> enc, key |-> key, over |-> over]

\* armor.Decode: finds an armor block or fails
armorDecode(signatureBytes) ==
  [err |-> signatureBytes.enc = "raw",
   body |-> [signatureBytes EXCEPT !.enc = "raw"],
   readable |-> signatureBytes.enc = "armored"]

\* checkDetachedSignature: a raw signature packet, made by a key of the
\* keyring, over exactly the signed bytes.
checkDetachedSignature(keyring, signedBytes, signatureBytes) ==
  /\ signatureBytes.enc = "raw"
  /\ signatureBytes.key \in keyring
  /\ signatureBytes.over = signedBytes

verifySignedAnyKey(keyring, signedBytes, signatureBytes) ==
  LET block == armorDecode(signatureBytes)
      sig == IF block.err THEN signatureBytes ELSE block.body
  IN IF ~block.err /\ ~block.readable THEN SignatureInvalid
     ELSE IF checkDetachedSignature({TrustedKey, UntrustedKey}, signedBytes, sig) THEN OK
     ELSE SignatureInvalid

verifySignedIgnoresPayload(keyring, signedBytes, signatureBytes) ==
  LET block == armorDecode(signatureBytes)
      sig == IF block.err THEN signatureBytes ELSE block.body
  IN IF ~block.err /\ ~block.readable THEN SignatureInvalid
     ELSE IF checkDetachedSignature(keyring, sig.over, sig) THEN OK
     ELSE SignatureInvalid

verifySignedNoDearmor(keyring, signedBytes, signatureBytes) ==
  IF checkDetachedSignature(keyring, signedBytes, signatureBytes) THEN OK
  ELSE SignatureInvalid

verifySigned(keyring, signedBytes, signatureBytes) ==
  LET block == armorDecode(signatureBytes)
      sig == IF block.err THEN signatureBytes ELSE block.body
  IN IF ~block.err /\ ~block.readable THEN SignatureInvalid
     ELSE IF checkDetachedSignature(keyring, signedBytes, sig) THEN OK
     ELSE SignatureInvalid

\* --------------------------------------------------------- digest matching
\* checkMatchingDigest after the ReadAll: digest, unmarshal, compare
checkMatchingDigestInverted(realTarBytes, manifestBytes) ==
  LET realDigest == Sha256Hex(realTarBytes)
      manifest == yamlUnmarshal(manifestBytes)
  IN IF manifest.err THEN ParseError
     ELSE IF realDigest = manifest.ArtifactDigest THEN DigestMismatch
     ELSE OK

checkMatchingDigestPrefix(realTarBytes, manifestBytes) ==
  LET realDigest == Sha256Hex(realTarBytes)
      manifest == yamlUnmarshal(manifestBytes)
      n == Len(manifest.ArtifactDigest)
  IN IF manifest.err THEN ParseError
     ELSE IF n > Len(realDigest) \/ SubSeq(realDigest, 1, n) # manifest.ArtifactDigest
       THEN DigestMismatch
     ELSE OK

checkMatchingDigestSkipsEmpty(realTarBytes, manifestBytes) ==
  LET realDigest == Sha256Hex(realTarBytes)
      manifest == yamlUnmarshal(manifestBytes)
  IN IF manifest.err THEN ParseError
     ELSE IF manifest.ArtifactDigest # <<>> /\ realDigest # manifest.ArtifactDigest
       THEN DigestMismatch
     ELSE OK

checkMatchingDigest(realTarBytes, manifestBytes) ==
  LET realDigest == Sha256Hex(realTarBytes)
      manifest == yamlUnmarshal(manifestBytes)
  IN IF manifest.err THEN ParseError
     ELSE IF realDigest # manifest.ArtifactDigest THEN DigestMismatch
     ELSE OK

\* -------------------------------------------------------------------- URLs
URL(scheme, path, query) ==
  [Scheme |-> scheme, Host |-> "foo.bar.baz", Path |-> path, RawQuery |-> query,
   Fragment |-> ""]

WithSuffix(u, suffix) == [u EXCEPT !.Path = @ \o suffix]

\* x := &url.URL{}; *x = *artifactLocation; x.Path = x.Path + suffix:
\* the caller's URL and the derived one, two objects
AliasWithSuffix(artifactLocation, suffix) ==
  [artifactLocation |-> WithSuffix(artifactLocation, suffix),
   derived |-> WithSuffix(artifactLocation, suffix)]

CopyWithSuffix(artifactLocation, suffix) ==
  [artifactLocation |-> artifactLocation,
   derived |-> WithSuffix(artifactLocation, suffix)]

PublishedBase == URL("https", "/artifacts/myapp_abc123.tar.gz", "")
OtherBase ==
  [URL("file", "/artifacts/other.tar.gz", "rev=2") EXCEPT !.Fragment = "latest"]
Locations ==
  { PublishedBase,
    OtherBase,
    URL("ftp", "/artifacts/myapp_abc123.tar.gz", "") }

\* the switch on artifactLocation.Scheme
SchemeRecognizedWithFtp(scheme) == scheme \in {"file", "ftp", "gs", "http", "https"}

SchemeRecognized(scheme) == scheme \in {"file", "gs", "http", "https"}

Verifiers == {"nop", "manifest", "build", "composite"}


\* --------------------------------------------------------------- the state
VARIABLES
  call,        \* per caller: the activation of VerifyHoistArtifact
  localCopy,   \* per caller: the open artifact file, content and read offset
  tmpfs,       \* the temporary directories of the node
  remote       \* what the fetcher finds at each URL

vars == <<call, localCopy, tmpfs, remote>>

EmptyURL == [Scheme |-> "", Host |-> "", Path |-> "", RawQuery |-> "", Fragment |-> ""]

FileNames == {"manifest", "signature", "sig"}
NoFiles == [n \in FileNames |-> None]
NoDir == [exists |-> FALSE, owner |-> 0, files |-> NoFiles]

\* what a caller keeps of its previous call on the same local copy
NoPrev ==
  [called |-> FALSE, result |-> NotRun, startOffset |-> 0, manErr |-> NotRun,
   manFault |-> "none", seekFailed |-> FALSE, buildFault |-> "none"]

IdleCall ==
  [pc |-> "idle", verifier |-> "nop", artifactLocation |-> EmptyURL,
   dir |-> 0, manifestSrc |-> EmptyURL, sigURI |-> EmptyURL,
   manifestBytes |-> None, signatureBytes |-> None,
   sigData |-> None, signedBytes |-> None,
   err |-> OK, result |-> NotRun,
   \* history of the call, read by the properties only
   given |-> EmptyURL, startOffset |-> 0, fetchLog |-> <<>>, reads |-> 0,
   manErr |-> NotRun, buildErr |-> NotRun,
   buildInvoked |-> FALSE, buildStartOffset |-> 0,
   fetchOk |-> <<>>, manFault |-> "none", seekFailed |-> FALSE,
   buildFault |-> "none", prev |-> NoPrev]

\* ------------------------------------------------------------ the local copy
\* ioutil.ReadAll(localCopy): the file after the read
ReadAllTruncates(f) == [content |-> <<>>, offset |-> 0]

ReadAll(f) == [f EXCEPT !.offset = Len(f.content)]

\* localCopy.Seek(0, os.SEEK_SET): the file after the call
SeekKeepsOffset(f, seekOk) == f

SeekStart(f, seekOk) == [f EXCEPT !.offset = IF seekOk THEN 0 ELSE @]

\* nopVerifier.VerifyHoistArtifact: return nil
nopRejectsUnknownScheme(artifactLocation) ==
  IF artifactLocation.Scheme \in {"file", "gs", "http", "https"}
  THEN OK ELSE UnsupportedScheme

nopVerifyHoistArtifact(artifactLocation) == OK

\* ------------------------------------------------------------- file system
\* ioutil.TempDir("", "artifact_verification"): a name no existing
\* directory has
TempDirFixedName(fs) == {1}

TempDirNames(fs) == {d \in DirNames : ~fs[d].exists}

MkTempDir(fs, d, c) ==
  [fs EXCEPT ![d] = [exists |-> TRUE, owner |-> c,
                     files |-> IF fs[d].exists THEN fs[d].files ELSE NoFiles]]

\* ioutil.ReadFile(filepath.Join(dir, name))
ReadFile(fs, d, name) == IF fs[d].exists THEN fs[d].files[name] ELSE None

RemoveAll(fs, d) == [fs EXCEPT ![d] = NoDir]

\* defer os.RemoveAll(dir)
RemoveOnSuccessOnly(fs, d, err) == IF err = OK THEN RemoveAll(fs, d) ELSE fs

DeferredRemoveAll(fs, d, err) == RemoveAll(fs, d)

\* ----------------------------------------------------------------- fetcher
\* uri.Fetcher.CopyLocal(src, dst): the object at src, if there is one and
\* dst can be written
Fetch(src) == IF src \in DOMAIN remote THEN remote[src] ELSE None

CopyLocalSucceeds(fs, src, d) == Fetch(src) # None /\ fs[d].exists

CopyLocal(fs, src, d, name) ==
  IF CopyLocalSucceeds(fs, src, d)
  THEN [fs EXCEPT ![d].files[name] = Fetch(src)]
  ELSE fs

\* if err = CopyLocal(...); err != nil { return util.Errorf(...) }
IgnoreFetchError(copied) == OK

FetchError(copied) == IF copied THEN OK ELSE FetchFailure


\* ------------------------------------------------------------ initial state
\* The build system publishes, next to PublishedBase, any of: a manifest
\* (for the artifact, for the part of it after the caller's offset, for
\* another artifact, with a truncated or empty digest, without the key, or
\* not YAML), a signature of the manifest and a signature of the artifact
\* (raw or armored, by a trusted or unknown key, over these or other bytes).
ManifestChoices(content, offset) ==
  {None} \cup
  { Some(m) : m \in
      { ManifestFor(Sha256Hex(content)),
        ManifestFor(Sha256Hex(RestOf(content, offset))),
        ManifestFor(Sha256Hex(Altered(content))),
        ManifestFor(SubSeq(Sha256Hex(content), 1, DigestLen - 1)),
        ManifestFor(<<>>),
        <<YamlOtherKey>>,
        <<YamlMalformed>> } }

SignatureChoices(payloads, signed) ==
  {None} \cup
  { Some(Signature("raw", TrustedKey, p)) : p \in payloads } \cup
  { Some(Signature("armored", TrustedKey, signed)),
    Some(Signature("armored_corrupt", TrustedKey, signed)),
    Some(Signature("raw", UntrustedKey, signed)) }

Published(base, m, ms, s) ==
  [u \in { WithSuffix(base, ".manifest"),
           WithSuffix(base, ".manifest.sig"),
           WithSuffix(base, ".sig") } |->
     IF u.Path = base.Path \o ".manifest" THEN m
     ELSE IF u.Path = base.Path \o ".manifest.sig" THEN ms
     ELSE s]

RemoteChoices(content, offset) ==
  UNION
  { { Published(PublishedBase, m, ms, s) :
        ms \in LET mb == IF m = None THEN <<YamlOtherKey>> ELSE The(m)
               IN SignatureChoices({mb, mb \o <<0>>}, mb),
        s \in SignatureChoices({content, RestOf(content, offset), Altered(content)},
                               content) } :
      m \in ManifestChoices(content, offset) }

OpenFiles == { [content |-> a, offset |-> o] : a \in Artifacts, o \in 0..MaxLen }

Init ==
  /\ call = [c \in Callers |-> IdleCall]
  /\ tmpfs = [d \in DirNames |-> NoDir]
  /\ \E f \in {g \in OpenFiles : g.offset <= Len(g.content)} :
       /\ localCopy = [c \in Callers |-> IF c = 1 THEN f
                                         ELSE [content |-> <<>>, offset |-> 0]]
       /\ remote \in RemoteChoices(f.content, f.offset)


\* ------------------------------------------------------------------ actions
\* A caller invokes ArtifactVerifier.VerifyHoistArtifact(localCopy, loc) on
\* one of the four implementations.  nopVerifier returns nil at once.
Call(c) ==
  /\ call[c].pc \in {"idle", "done"}
  /\ \E v \in Verifiers, loc \in Locations :
       call' = [call EXCEPT ![c] =
         [IdleCall EXCEPT
            !.verifier = v,
            !.artifactLocation = loc,
            !.given = loc,
            !.startOffset = localCopy[c].offset,
            !.pc = IF v = "nop" THEN "done"
                   ELSE IF v = "build" THEN "b_enter" ELSE "m_enter",
            !.result = IF v = "nop" THEN nopVerifyHoistArtifact(loc) ELSE NotRun,
            !.buildInvoked = (v = "build"),
            !.buildStartOffset = localCopy[c].offset]]
  /\ UNCHANGED <<localCopy, tmpfs, remote>>

\* where BuildManifestVerifier.VerifyHoistArtifact returns to, with error e
ManifestReturns(cl, e) ==
  [cl EXCEPT !.err = e, !.manErr = e,
             !.pc = IF cl.verifier = "composite" THEN "c_check" ELSE "done",
             !.result = IF cl.verifier = "composite" THEN @ ELSE e]

\* BuildManifestVerifier: the scheme switch and ioutil.TempDir
ManifestEnter(c) ==
  LET cl == call[c] IN
  /\ cl.pc = "m_enter"
  /\ IF ~SchemeRecognized(cl.artifactLocation.Scheme)
     THEN /\ call' = [call EXCEPT ![c] = ManifestReturns(cl, UnsupportedScheme)]
          /\ UNCHANGED tmpfs
     ELSE \/ /\ call' = [call EXCEPT ![c] =
                  ManifestReturns([cl EXCEPT !.manFault = "tempdir"], TempDirError)]
             /\ UNCHANGED tmpfs
          \/ \E d \in TempDirNames(tmpfs) :
               /\ tmpfs' = MkTempDir(tmpfs, d, c)
               /\ call' = [call EXCEPT ![c] =
                    [cl EXCEPT !.dir = d, !.pc = "m_fetch_manifest"]]
  /\ UNCHANGED <<localCopy, remote>>

\* manifestSrc := copy of artifactLocation with ".manifest" appended to the
\* path; CopyLocal(manifestSrc, dir/manifest)
ManifestFetchManifest(c) ==
  LET cl == call[c]
      urls == CopyWithSuffix(cl.artifactLocation, ".manifest")
      manifestSrc == urls.derived
      err == FetchError(CopyLocalSucceeds(tmpfs, manifestSrc, cl.dir))
  IN
  /\ cl.pc = "m_fetch_manifest"
  /\ tmpfs' = CopyLocal(tmpfs, manifestSrc, cl.dir, "manifest")
  /\ call' = [call EXCEPT ![c] =
       [cl EXCEPT !.artifactLocation = urls.artifactLocation,
                  !.manifestSrc = manifestSrc,
                  !.fetchLog = Append(@, manifestSrc),
                  !.fetchOk = Append(@, CopyLocalSucceeds(tmpfs, manifestSrc, cl.dir)),
                  !.err = err,
                  !.pc = IF err # OK THEN "m_defer" ELSE "m_fetch_signature"]]
  /\ UNCHANGED <<localCopy, remote>>

\* signatureSrc := manifestSrc (the same URL object) with ".sig" appended;
\* CopyLocal(signatureSrc, dir/signature)
ManifestFetchSignature(c) ==
  LET cl == call[c]
      signatureSrc == WithSuffix(cl.manifestSrc, ".sig")
      err == FetchError(CopyLocalSucceeds(tmpfs, signatureSrc, cl.dir))
  IN
  /\ cl.pc = "m_fetch_signature"
  /\ tmpfs' = CopyLocal(tmpfs, signatureSrc, cl.dir, "signature")
  /\ call' = [call EXCEPT ![c] =
       [cl EXCEPT !.manifestSrc = signatureSrc,
                  !.fetchLog = Append(@, signatureSrc),
                  !.fetchOk = Append(@, CopyLocalSucceeds(tmpfs, signatureSrc, cl.dir)),
                  !.err = err,
                  !.pc = IF err # OK THEN "m_defer" ELSE "m_read_manifest"]]
  /\ UNCHANGED <<localCopy, remote>>

\* manifestBytes, err := ioutil.ReadFile(manifestDst)
ManifestReadManifest(c) ==
  LET cl == call[c]
      data == ReadFile(tmpfs, cl.dir, "manifest")
  IN
  /\ cl.pc = "m_read_manifest"
  /\ \/ /\ data # None
        /\ call' = [call EXCEPT ![c] =
             [cl EXCEPT !.manifestBytes = data, !.pc = "m_read_signature"]]
     \/ call' = [call EXCEPT ![c] =
             [cl EXCEPT !.err = ReadFileError, !.pc = "m_defer",
                        !.manFault = IF data # None THEN "readfile" ELSE @]]
  /\ UNCHANGED <<localCopy, tmpfs, remote>>

\* signatureBytes, err := ioutil.ReadFile(signatureDst)
ManifestReadSignature(c) ==
  LET cl == call[c]
      data == ReadFile(tmpfs, cl.dir, "signature")
  IN
  /\ cl.pc = "m_read_signature"
  /\ \/ /\ data # None
        /\ call' = [call EXCEPT ![c] =
             [cl EXCEPT !.signatureBytes = data, !.pc = "m_verify"]]
     \/ call' = [call EXCEPT ![c] =
             [cl EXCEPT !.err = ReadFileError, !.pc = "m_defer",
                        !.manFault = IF data # None THEN "readfile" ELSE @]]
  /\ UNCHANGED <<localCopy, tmpfs, remote>>

\* verifySigned(b.keyring, manifestBytes, signatureBytes)
ManifestVerifySigned(c) ==
  LET cl == call[c]
      err == verifySigned(Keyring, The(cl.manifestBytes), The(cl.signatureBytes))
  IN
  /\ cl.pc = "m_verify"
  /\ call' = [call EXCEPT ![c] =
       [cl EXCEPT !.err = err,
                  !.pc = IF err # OK THEN "m_defer" ELSE "m_digest"]]
  /\ UNCHANGED <<localCopy, tmpfs, remote>>

\* return b.checkMatchingDigest(localCopy, manifestBytes): ioutil.ReadAll of
\* the local copy from its current offset, then the comparison
ManifestCheckDigest(c) ==
  LET cl == call[c]
      f == localCopy[c]
      realTarBytes == RestOf(f.content, f.offset)
  IN
  /\ cl.pc = "m_digest"
  /\ \/ /\ localCopy' = [localCopy EXCEPT ![c] = ReadAll(f)]
        /\ call' = [call EXCEPT ![c] =
             [cl EXCEPT !.reads = @ + 1,
                        !.err = checkMatchingDigest(realTarBytes, The(cl.manifestBytes)),
                        !.pc = "m_defer"]]
     \/ /\ call' = [call EXCEPT ![c] =
             [cl EXCEPT !.reads = @ + 1, !.err = IOError, !.pc = "m_defer",
                        !.manFault = "readall"]]
        /\ UNCHANGED localCopy
  /\ UNCHANGED <<tmpfs, remote>>

\* the deferred os.RemoveAll(dir), then the return
ManifestDefer(c) ==
  LET cl == call[c] IN
  /\ cl.pc = "m_defer"
  /\ tmpfs' = DeferredRemoveAll(tmpfs, cl.dir, cl.err)
  /\ call' = [call EXCEPT ![c] = ManifestReturns(cl, cl.err)]
  /\ UNCHANGED <<localCopy, remote>>


\* ---------------------------------------------------------- CompositeVerifier
\* if err != nil { ... fall back to the build verifier ... }
AlwaysFallsBack(err) == TRUE

FallsBackOnSuccess(err) == err = OK

CompositeFallsBack(err) == err # OK

\* _, err = localCopy.Seek(0, os.SEEK_SET); if err != nil { return ... }
RewindNeverAborts(seekOk) == FALSE

RewindAborts(seekOk) == ~seekOk

\* err = b.buildVerifier.VerifyHoistArtifact(...); return err
CompositeFirstError(manErr, buildErr) == manErr

CompositeOutcome(manErr, buildErr) == buildErr

\* after the manifest verifier returned: return nil, or rewind the local
\* copy and call the build verifier
CompositeCheck(c) ==
  LET cl == call[c]
      f == localCopy[c]
  IN
  /\ cl.pc = "c_check"
  /\ IF ~CompositeFallsBack(cl.err)
     THEN /\ call' = [call EXCEPT ![c] = [cl EXCEPT !.pc = "done", !.result = cl.err]]
          /\ UNCHANGED localCopy
     ELSE \E seekOk \in BOOLEAN :
            LET offset == SeekStart(f, seekOk).offset IN
            /\ localCopy' = [localCopy EXCEPT ![c] = SeekStart(f, seekOk)]
            /\ call' = [call EXCEPT ![c] =
                 IF RewindAborts(seekOk)
                 THEN [cl EXCEPT !.pc = "done", !.err = IOError, !.result = IOError,
                                 !.seekFailed = ~seekOk]
                 ELSE [cl EXCEPT !.pc = "b_enter", !.buildInvoked = TRUE,
                                 !.buildStartOffset = offset,
                                 !.seekFailed = ~seekOk]]
  /\ UNCHANGED <<tmpfs, remote>>

\* return err, the build verifier's
CompositeReturn(c) ==
  LET cl == call[c] IN
  /\ cl.pc = "c_return"
  /\ call' = [call EXCEPT ![c] =
       [cl EXCEPT !.pc = "done", !.err = CompositeOutcome(cl.manErr, cl.buildErr),
                  !.result = CompositeOutcome(cl.manErr, cl.buildErr)]]
  /\ UNCHANGED <<localCopy, tmpfs, remote>>

\* -------------------------------------------------------------- BuildVerifier
\* where BuildVerifier.VerifyHoistArtifact returns to, with error e
BuildReturns(cl, e) ==
  [cl EXCEPT !.err = e, !.buildErr = e,
             !.pc = IF cl.verifier = "composite" THEN "c_return" ELSE "done",
             !.result = IF cl.verifier = "composite" THEN @ ELSE e]

\* the scheme switch and ioutil.TempDir
BuildEnter(c) ==
  LET cl == call[c] IN
  /\ cl.pc = "b_enter"
  /\ IF ~SchemeRecognized(cl.artifactLocation.Scheme)
     THEN /\ call' = [call EXCEPT ![c] = BuildReturns(cl, UnsupportedScheme)]
          /\ UNCHANGED tmpfs
     ELSE \/ /\ call' = [call EXCEPT ![c] =
                  BuildReturns([cl EXCEPT !.buildFault = "tempdir"], TempDirError)]
             /\ UNCHANGED tmpfs
          \/ \E d \in TempDirNames(tmpfs) :
               /\ tmpfs' = MkTempDir(tmpfs, d, c)
               /\ call' = [call EXCEPT ![c] =
                    [cl EXCEPT !.dir = d, !.pc = "b_fetch_sig"]]
  /\ UNCHANGED <<localCopy, remote>>

\* sigURI := copy of artifactLocation with ".sig" appended to the path;
\* CopyLocal(sigURI, dir/sig)
BuildFetchSig(c) ==
  LET cl == call[c]
      urls == CopyWithSuffix(cl.artifactLocation, ".sig")
      sigURI == urls.derived
      err == FetchError(CopyLocalSucceeds(tmpfs, sigURI, cl.dir))
  IN
  /\ cl.pc = "b_fetch_sig"
  /\ tmpfs' = CopyLocal(tmpfs, sigURI, cl.dir, "sig")
  /\ call' = [call EXCEPT ![c] =
       [cl EXCEPT !.artifactLocation = urls.artifactLocation,
                  !.sigURI = sigURI,
                  !.fetchLog = Append(@, sigURI),
                  !.fetchOk = Append(@, CopyLocalSucceeds(tmpfs, sigURI, cl.dir)),
                  !.err = err,
                  !.pc = IF err # OK THEN "b_defer" ELSE "b_read_sig"]]
  /\ UNCHANGED <<localCopy, remote>>

\* sigData, err := ioutil.ReadFile(sigPath)
BuildReadSig(c) ==
  LET cl == call[c]
      data == ReadFile(tmpfs, cl.dir, "sig")
  IN
  /\ cl.pc = "b_read_sig"
  /\ \/ /\ data # None
        /\ call' = [call EXCEPT ![c] =
             [cl EXCEPT !.sigData = data, !.pc = "b_verify"]]
     \/ call' = [call EXCEPT ![c] =
             [cl EXCEPT !.err = ReadFileError, !.pc = "b_defer",
                        !.buildFault = IF data # None THEN "readfile" ELSE @]]
  /\ UNCHANGED <<localCopy, tmpfs, remote>>

\* signedBytes, err := ioutil.ReadAll(localCopy);
\* return verifySigned(b.keyring, signedBytes, sigData)
BuildVerifySigned(c) ==
  LET cl == call[c]
      f == localCopy[c]
      signedBytes == RestOf(f.content, f.offset)
  IN
  /\ cl.pc = "b_verify"
  /\ \/ /\ localCopy' = [localCopy EXCEPT ![c] = ReadAll(f)]
        /\ call' = [call EXCEPT ![c] =
             [cl EXCEPT !.reads = @ + 1,
                        !.signedBytes = Some(signedBytes),
                        !.err = verifySigned(Keyring, signedBytes, The(cl.sigData)),
                        !.pc = "b_defer"]]
     \/ /\ call' = [call EXCEPT ![c] =
             [cl EXCEPT !.reads = @ + 1, !.err = IOError, !.pc = "b_defer",
                        !.buildFault = "readall"]]
        /\ UNCHANGED localCopy
  /\ UNCHANGED <<tmpfs, remote>>

\* the deferred os.RemoveAll(dir), then the return
BuildDefer(c) ==
  LET cl == call[c] IN
  /\ cl.pc = "b_defer"
  /\ tmpfs' = DeferredRemoveAll(tmpfs, cl.dir, cl.err)
  /\ call' = [call EXCEPT ![c] = BuildReturns(cl, cl.err)]
  /\ UNCHANGED <<localCopy, remote>>

\* ------------------------------------------------------------ specification
Step(c) ==
  \/ Call(c)
  \/ ManifestEnter(c)
  \/ ManifestFetchManifest(c)
  \/ ManifestFetchSignature(c)
  \/ ManifestReadManifest(c)
  \/ ManifestReadSignature(c)
  \/ ManifestVerifySigned(c)
  \/ ManifestCheckDigest(c)
  \/ ManifestDefer(c)
  \/ CompositeCheck(c)
  \/ CompositeReturn(c)
  \/ BuildEnter(c)
  \/ BuildFetchSig(c)
  \/ BuildReadSig(c)
  \/ BuildVerifySigned(c)
  \/ BuildDefer(c)

\* one caller, any sequence of calls on its open local copy
Next == \E c \in SeqCallers : Step(c)

Spec == Init /\ [][Next]_vars

\* two callers at once, each with its own local copy; the build system has
\* published both artifacts, the first with a manifest signed by an unknown
\* key and an armored signature of the artifact
ConcRemote ==
  Published(PublishedBase,
            Some(ManifestFor(Sha256Hex(<<0>>))),
            Some(Signature("raw", UntrustedKey, ManifestFor(Sha256Hex(<<0>>)))),
            Some(Signature("armored", TrustedKey, <<0>>))) @@
  Published(OtherBase,
            Some(ManifestFor(Sha256Hex(<<1>>))),
            Some(Signature("raw", TrustedKey, ManifestFor(Sha256Hex(<<1>>)))),
            Some(Signature("raw", TrustedKey, <<1>>)))

InitConc ==
  /\ call = [c \in Callers |-> IdleCall]
  /\ tmpfs = [d \in DirNames |-> NoDir]
  /\ localCopy = [c \in Callers |-> [content |-> <<c - 1>>, offset |-> 0]]
  /\ remote = ConcRemote

NextConc == \E c \in Callers : Step(c)

SpecConc == InitConc /\ [][NextConc]_vars

\* one caller that calls a verifier and then, as soon as the call returned,
\* calls the same verifier again with the same local copy and the same
\* artifactLocation, without a Seek in between
CallAgain(c) ==
  LET cl == call[c] IN
  /\ cl.pc = "done"
  /\ ~cl.prev.called
  /\ call' = [call EXCEPT ![c] =
       [IdleCall EXCEPT
          !.verifier = cl.verifier,
          !.artifactLocation = cl.given,
          !.given = cl.given,
          !.startOffset = localCopy[c].offset,
          !.pc = IF cl.verifier = "nop" THEN "done"
                 ELSE IF cl.verifier = "build" THEN "b_enter" ELSE "m_enter",
          !.result = IF cl.verifier = "nop"
                       THEN nopVerifyHoistArtifact(cl.given) ELSE NotRun,
          !.buildInvoked = (cl.verifier = "build"),
          !.buildStartOffset = localCopy[c].offset,
          !.prev = [called |-> TRUE, result |-> cl.result,
                    startOffset |-> cl.startOffset, manErr |-> cl.manErr,
                    manFault |-> cl.manFault, seekFailed |-> cl.seekFailed,
                    buildFault |-> cl.buildFault]]]
  /\ UNCHANGED <<localCopy, tmpfs, remote>>

\* what the build system may have published for the repeated calls: no
\* manifest, or one declaring the digest of the artifact or of no bytes,
\* unsigned or signed; no signature of the artifact, or one over the
\* artifact, or an armored one over no bytes
RepeatRemotes(content) ==
  UNION
  { { Published(PublishedBase, m, ms, s) :
        ms \in {None} \cup { Some(Signature("raw", TrustedKey, mb)) : mb \in m },
        s \in { None,
                Some(Signature("raw", TrustedKey, content)),
                Some(Signature("armored", TrustedKey, <<>>)) } } :
      m \in { None,
              Some(ManifestFor(Sha256Hex(content))),
              Some(ManifestFor(Sha256Hex(<<>>))) } }

InitRepeat ==
  /\ call = [c \in Callers |-> IdleCall]
  /\ tmpfs = [d \in DirNames |-> NoDir]
  /\ \E f \in {g \in OpenFiles : g.offset <= Len(g.content)} :
       /\ localCopy = [c \in Callers |-> IF c = 1 THEN f
                                         ELSE [content |-> <<>>, offset |-> 0]]
       /\ remote \in RepeatRemotes(f.content)

NextRepeat ==
  \E c \in SeqCallers :
    \/ call[c].pc # "done" /\ Step(c)
    \/ CallAgain(c)

SpecRepeat == InitRepeat /\ [][NextRepeat]_vars


\* ------------------------------------------------------------------ claims
Done(c) == call[c].pc = "done"

ClaimedSchemes == {"file", "gs", "http", "https"}

ManifestURL(loc) == [loc EXCEPT !.Path = @ \o ".manifest"]
ManifestSigURL(loc) == [loc EXCEPT !.Path = @ \o ".manifest.sig"]
SigURL(loc) == [loc EXCEPT !.Path = @ \o ".sig"]

Requested(cl) == {cl.fetchLog[i] : i \in 1..Len(cl.fetchLog)}
FailedFetches(cl) == {i \in 1..Len(cl.fetchOk) : ~cl.fetchOk[i]}

\* a well-formed signature (raw or armored) by a key of the keyring over
\* exactly these bytes
SignatureValid(sig, payload) ==
  /\ sig.enc \in {"raw", "armored"}
  /\ sig.key \in Keyring
  /\ sig.over = payload

\* C1: in a composite call whose manifest strategy failed and whose rewind
\* succeeded, the build strategy is invoked with the local copy at offset 0,
\* what it reads is the whole artifact, and the call returns exactly the
\* build strategy's outcome.
C1_FallbackReturnsBuildOutcome ==
  \A c \in Callers :
    LET cl == call[c] IN
    (/\ cl.verifier = "composite"
     /\ cl.manErr \notin {NotRun, OK}
     /\ cl.pc # "c_check"
     /\ ~cl.seekFailed)
    => /\ cl.buildInvoked
       /\ cl.buildStartOffset = 0
       /\ cl.signedBytes # None => The(cl.signedBytes) = localCopy[c].content
       /\ Done(c) => cl.buildErr # NotRun /\ cl.result = cl.buildErr

C1_Witness ==
  \E c \in Callers :
    /\ Done(c)
    /\ call[c].verifier = "composite"
    /\ call[c].manErr = DigestMismatch
    /\ ~call[c].seekFailed
    /\ call[c].reads = 2
    /\ call[c].result = OK
    /\ localCopy[c].content # <<>>

\* C2: in a composite call whose manifest strategy succeeded, the call
\* returns success, the build verifier is never invoked, and the only fetch
\* requests are <base>.manifest and <base>.manifest.sig.
C2_ManifestSuccessSkipsBuild ==
  \A c \in Callers :
    LET cl == call[c] IN
    (cl.verifier = "composite" /\ cl.manErr = OK)
    => /\ ~cl.buildInvoked
       /\ cl.fetchLog = <<ManifestURL(cl.artifactLocation),
                          ManifestSigURL(cl.artifactLocation)>>
       /\ SigURL(cl.artifactLocation) \notin Requested(cl)
       /\ cl.pc \in {"c_check", "done"}
       /\ Done(c) => cl.result = OK

C2_Witness ==
  \E c \in Callers :
    /\ Done(c)
    /\ call[c].verifier = "composite"
    /\ call[c].manErr = OK
    /\ call[c].result = OK

\* C3 as claimed: for a scheme outside {file, gs, http, https} each of the
\* three verifiers returns UnsupportedScheme and never invokes CopyLocal.
C3_Original ==
  \A c \in Callers :
    LET cl == call[c] IN
    (/\ cl.verifier \in {"manifest", "build", "composite"}
     /\ cl.artifactLocation.Scheme \notin ClaimedSchemes)
    => /\ cl.fetchLog = <<>>
       /\ Done(c) => cl.result = UnsupportedScheme

\* C3 as amended: for such a scheme CopyLocal is never invoked; the two
\* inner verifiers return UnsupportedScheme; the composite returns
\* UnsupportedScheme when its rewind of the local copy succeeds and IOError
\* when the rewind fails.
C3_UnsupportedScheme ==
  \A c \in Callers :
    LET cl == call[c] IN
    (/\ cl.verifier \in {"manifest", "build", "composite"}
     /\ cl.artifactLocation.Scheme \notin ClaimedSchemes)
    => /\ cl.fetchLog = <<>>
       /\ cl.dir = 0
       /\ Done(c) => cl.result = IF cl.verifier = "composite" /\ cl.seekFailed
                               THEN IOError ELSE UnsupportedScheme

C3_Witness ==
  \E c \in Callers :
    /\ Done(c)
    /\ call[c].verifier = "composite"
    /\ call[c].artifactLocation.Scheme = "ftp"
    /\ call[c].manErr = UnsupportedScheme
    /\ call[c].buildErr = UnsupportedScheme
    /\ call[c].result = UnsupportedScheme

\* the situation of C4: a manifest call with a recognized scheme, both
\* fetches succeeded, the manifest declares the SHA-256 of the whole local
\* file and carries a valid signature of a keyring key (and no read of a
\* downloaded file or of the local copy was failed by the operating system)
C4_Case(c) ==
  LET cl == call[c]
      m == Fetch(ManifestURL(cl.artifactLocation))
      ms == Fetch(ManifestSigURL(cl.artifactLocation))
  IN /\ Done(c)
     /\ cl.verifier = "manifest"
     /\ cl.artifactLocation.Scheme \in ClaimedSchemes
     /\ cl.fetchOk = <<TRUE, TRUE>>
     /\ cl.manFault = "none"
     /\ m # None /\ ms # None
     /\ ~yamlUnmarshal(The(m)).err
     /\ yamlUnmarshal(The(m)).ArtifactDigest = Sha256Hex(localCopy[c].content)
     /\ SignatureValid(The(ms), The(m))

\* C4 as claimed: in that situation the call returns success.
C4_Original == \A c \in Callers : C4_Case(c) => call[c].result = OK

\* C4 as amended: in that situation the call returns success provided the
\* local copy's read offset was 0 when the call started.
C4_MatchingDigestSucceeds ==
  \A c \in Callers :
    (C4_Case(c) /\ call[c].startOffset = 0) => call[c].result = OK

C4_Witness ==
  \E c \in Callers :
    /\ C4_Case(c)
    /\ call[c].startOffset = 0
    /\ localCopy[c].content # <<>>
    /\ call[c].result = OK

\* C5: once the manifest verifier holds a manifest and a signature that is
\* not valid under the keyring, it fails with SignatureInvalid whatever the
\* digest; the local copy is never read and neither DigestMismatch nor
\* ParseError is reported.
C5_SignatureBeforeDigest ==
  \A c \in Callers :
    LET cl == call[c] IN
    (/\ cl.verifier = "manifest"
     /\ cl.manifestBytes # None /\ cl.signatureBytes # None
     /\ ~SignatureValid(The(cl.signatureBytes), The(cl.manifestBytes))
     /\ cl.pc # "m_verify")
    => /\ cl.err = SignatureInvalid
       /\ cl.reads = 0
       /\ localCopy[c].offset = cl.startOffset
       /\ Done(c) => cl.result = SignatureInvalid

C5_Witness ==
  \E c \in Callers :
    LET cl == call[c] IN
    /\ Done(c)
    /\ cl.verifier = "manifest"
    /\ cl.manifestBytes # None /\ cl.signatureBytes # None
    /\ The(cl.signatureBytes).key \notin Keyring
    /\ The(cl.signatureBytes).over = The(cl.manifestBytes)
    /\ checkMatchingDigest(RestOf(localCopy[c].content, cl.startOffset),
                           The(cl.manifestBytes)) = OK
    /\ cl.result = SignatureInvalid

\* C6: the manifest verifier succeeds only if the digest declared by the
\* manifest is equal, as a string, to the digest of the bytes it read from
\* the local copy; with a valid signature and a manifest that parses, any
\* other declared digest (of whatever length) is a DigestMismatch.
C6_DigestMismatch ==
  \A c \in Callers :
    LET cl == call[c]
        computed == Sha256Hex(RestOf(localCopy[c].content, cl.startOffset))
    IN
    (Done(c) /\ cl.verifier = "manifest")
    => /\ cl.result = OK =>
            /\ cl.manifestBytes # None
            /\ ~yamlUnmarshal(The(cl.manifestBytes)).err
            /\ yamlUnmarshal(The(cl.manifestBytes)).ArtifactDigest = computed
       /\ (/\ cl.manifestBytes # None /\ cl.signatureBytes # None
           /\ SignatureValid(The(cl.signatureBytes), The(cl.manifestBytes))
           /\ ~yamlUnmarshal(The(cl.manifestBytes)).err
           /\ cl.reads = 1 /\ cl.manFault = "none"
           /\ yamlUnmarshal(The(cl.manifestBytes)).ArtifactDigest # computed)
          => cl.result = DigestMismatch

C6_Witness ==
  \E c \in Callers :
    LET cl == call[c] IN
    /\ Done(c)
    /\ cl.verifier = "manifest"
    /\ cl.manifestBytes # None
    /\ Len(yamlUnmarshal(The(cl.manifestBytes)).ArtifactDigest) \notin {0, DigestLen}
    /\ cl.result = DigestMismatch

\* C7: a composite call whose rewind of the local copy fails returns IOError
\* at once: the build verifier is not invoked and <base>.sig is not fetched.
C7_RewindFailureAborts ==
  \A c \in Callers :
    LET cl == call[c] IN
    (cl.verifier = "composite" /\ cl.seekFailed)
    => /\ Done(c)
       /\ cl.result = IOError
       /\ ~cl.buildInvoked
       /\ SigURL(cl.artifactLocation) \notin Requested(cl)

C7_Witness ==
  \E c \in Callers :
    /\ Done(c)
    /\ call[c].verifier = "composite"
    /\ call[c].manErr = DigestMismatch
    /\ call[c].seekFailed
    /\ call[c].result = IOError

\* the calls that are between TempDir and the deferred RemoveAll
AreaPcs ==
  {"m_fetch_manifest", "m_fetch_signature", "m_read_manifest",
   "m_read_signature", "m_verify", "m_digest", "m_defer",
   "b_fetch_sig", "b_read_sig", "b_verify", "b_defer"}

InArea(c) == call[c].pc \in AreaPcs

\* C8: every temporary directory that exists belongs to a call that has not
\* returned yet and is that call's current directory; when a verifier has
\* returned, on whatever path, no directory it created exists.
C8_TempAreaReleased ==
  /\ \A d \in DirNames :
       tmpfs[d].exists =>
         /\ tmpfs[d].owner \in Callers
         /\ InArea(tmpfs[d].owner)
         /\ call[tmpfs[d].owner].dir = d
  /\ (\A c \in Callers : call[c].pc \in {"idle", "done"})
       => \A d \in DirNames : tmpfs[d] = NoDir

C8_Witness ==
  \E c \in Callers :
    /\ Done(c)
    /\ call[c].verifier = "composite"
    /\ call[c].manErr = DigestMismatch
    /\ call[c].buildErr = SignatureInvalid
    /\ \A d \in DirNames : tmpfs[d] = NoDir


\* what a call returns when no other call runs: the manifest strategy, the
\* build strategy and their composition, given the local copy, the offset
\* at which the strategy starts and the operating-system failure it meets
SoloManifest(loc, content, offset, fault) ==
  LET m == Fetch(ManifestURL(loc))
      ms == Fetch(ManifestSigURL(loc))
  IN IF loc.Scheme \notin ClaimedSchemes THEN UnsupportedScheme
     ELSE IF fault = "tempdir" THEN TempDirError
     ELSE IF m = None \/ ms = None THEN FetchFailure
     ELSE IF fault = "readfile" THEN ReadFileError
     ELSE IF ~SignatureValid(The(ms), The(m)) THEN SignatureInvalid
     ELSE IF fault = "readall" THEN IOError
     ELSE IF yamlUnmarshal(The(m)).err THEN ParseError
     ELSE IF yamlUnmarshal(The(m)).ArtifactDigest # Sha256Hex(RestOf(content, offset))
       THEN DigestMismatch
     ELSE OK

SoloBuild(loc, content, offset, fault) ==
  LET s == Fetch(SigURL(loc))
  IN IF loc.Scheme \notin ClaimedSchemes THEN UnsupportedScheme
     ELSE IF fault = "tempdir" THEN TempDirError
     ELSE IF s = None THEN FetchFailure
     ELSE IF fault = "readfile" THEN ReadFileError
     ELSE IF fault = "readall" THEN IOError
     ELSE IF ~SignatureValid(The(s), RestOf(content, offset)) THEN SignatureInvalid
     ELSE OK

SoloOutcome(c) ==
  LET cl == call[c]
      loc == cl.artifactLocation
      content == localCopy[c].content
      man == SoloManifest(loc, content, cl.startOffset, cl.manFault)
  IN CASE cl.verifier = "nop" -> OK
       [] cl.verifier = "manifest" -> man
       [] cl.verifier = "build" -> SoloBuild(loc, content, cl.startOffset, cl.buildFault)
       [] cl.verifier = "composite" ->
            IF man = OK THEN OK
            ELSE IF cl.seekFailed THEN IOError
            ELSE SoloBuild(loc, content, 0, cl.buildFault)

\* C9: calls of two callers with distinct local copies do not interfere,
\* however their steps interleave: two calls never hold the same temporary
\* directory, a call's directory exists, is its own and holds nothing but
\* what that call fetched into it, what a call read is what it fetched, and
\* a call returns what it would return if it ran alone.
C9_ConcurrentCallsIndependent ==
  \A c \in Callers :
    LET cl == call[c]
        loc == cl.artifactLocation
    IN
    /\ InArea(c) =>
         /\ tmpfs[cl.dir].exists
         /\ tmpfs[cl.dir].owner = c
         /\ \A o \in Callers \ {c} : InArea(o) => call[o].dir # cl.dir
         /\ tmpfs[cl.dir].files["manifest"] \in
              {None} \cup (IF cl.verifier = "build" THEN {} ELSE {Fetch(ManifestURL(loc))})
         /\ tmpfs[cl.dir].files["signature"] \in
              {None} \cup (IF cl.verifier = "build" THEN {} ELSE {Fetch(ManifestSigURL(loc))})
         /\ tmpfs[cl.dir].files["sig"] \in
              {None} \cup (IF cl.verifier = "manifest" THEN {} ELSE {Fetch(SigURL(loc))})
         /\ cl.pc \in {"m_read_manifest", "m_read_signature", "m_verify", "m_digest"}
              => /\ tmpfs[cl.dir].files["manifest"] # None
                 /\ tmpfs[cl.dir].files["signature"] # None
         /\ cl.pc \in {"b_read_sig", "b_verify"} => tmpfs[cl.dir].files["sig"] # None
    /\ cl.manifestBytes # None => cl.manifestBytes = Fetch(ManifestURL(loc))
    /\ cl.signatureBytes # None => cl.signatureBytes = Fetch(ManifestSigURL(loc))
    /\ cl.sigData # None => cl.sigData = Fetch(SigURL(loc))
    /\ Done(c) => cl.result = SoloOutcome(c)

C9_Witness ==
  /\ call[1].pc = "m_digest"
  /\ call[2].pc = "b_defer"
  /\ call[1].dir # call[2].dir
  /\ call[2].verifier = "composite"
  /\ call[2].manErr = DigestMismatch
  /\ call[2].err = OK

\* C10 as claimed: a call of any of the three verifiers in which CopyLocal
\* returned an error returns FetchFailure.
C10_Original ==
  \A c \in Callers :
    LET cl == call[c] IN
    (/\ Done(c)
     /\ cl.verifier \in {"manifest", "build", "composite"}
     /\ FailedFetches(cl) # {})
    => cl.result = FetchFailure

\* C10 as amended: BuildManifestVerifier and BuildVerifier return
\* FetchFailure when CopyLocal returns an error.  CompositeVerifier returns
\* FetchFailure when the fetch of <base>.sig fails; when a fetch of its
\* manifest strategy fails, that strategy fails with FetchFailure and the
\* composite falls back: it returns the build strategy's outcome, or IOError
\* if the rewind fails.
C10_FetchFailure ==
  \A c \in Callers :
    LET cl == call[c]
        failed == {cl.fetchLog[i] : i \in FailedFetches(cl)}
    IN
    (/\ Done(c)
     /\ cl.verifier \in {"manifest", "build", "composite"}
     /\ failed # {})
    => IF cl.verifier \in {"manifest", "build"} THEN cl.result = FetchFailure
       ELSE /\ SigURL(cl.artifactLocation) \in failed
                => cl.buildErr = FetchFailure /\ cl.result = FetchFailure
            /\ failed \ {SigURL(cl.artifactLocation)} # {}
                => /\ cl.manErr = FetchFailure
                   /\ cl.result = IF cl.seekFailed THEN IOError ELSE cl.buildErr

C10_Witness ==
  \E c \in Callers :
    /\ Done(c)
    /\ call[c].verifier = "composite"
    /\ call[c].fetchOk = <<FALSE, TRUE>>
    /\ call[c].manErr = FetchFailure
    /\ call[c].result = OK


\* C11: no step of any verifier changes the content of a caller's local
\* copy; only its read offset moves.
C11_LocalCopyContentUnchanged ==
  [][\A c \in Callers :
       /\ localCopy'[c].content = localCopy[c].content
       /\ localCopy'[c].offset \in 0..Len(localCopy[c].content)]_vars

C11_Witness ==
  \E c \in Callers :
    /\ Done(c)
    /\ call[c].verifier = "composite"
    /\ call[c].reads = 2
    /\ call[c].startOffset = 0
    /\ localCopy[c].content # <<>>
    /\ localCopy[c].offset = Len(localCopy[c].content)

\* C12: a call of nopVerifier returns nil for every local copy and every
\* location, fetches nothing, creates no temporary directory and leaves the
\* read offset of the local copy where it was.
C12_NopAlwaysSucceeds ==
  \A c \in Callers :
    LET cl == call[c] IN
    (cl.verifier = "nop" /\ cl.pc # "idle")
    => /\ Done(c)
       /\ cl.result = OK
       /\ cl.fetchLog = <<>>
       /\ cl.dir = 0
       /\ cl.reads = 0
       /\ localCopy[c].offset = cl.startOffset
       /\ \A d \in DirNames : tmpfs[d].exists => tmpfs[d].owner # c

C12_Witness ==
  \E c \in Callers :
    /\ Done(c)
    /\ call[c].verifier = "nop"
    /\ call[c].given.Scheme = "ftp"
    /\ call[c].startOffset > 0
    /\ call[c].result = OK

\* C13: the fetch requests of a composite call are, in order, a prefix of
\* <base>.manifest, <base>.manifest.sig, then possibly <base>.sig;
\* <base>.manifest.sig is requested only after <base>.manifest was fetched,
\* <base>.sig only after the manifest strategy failed, and there are at
\* most three requests.
C13_FetchOrder ==
  \A c \in Callers :
    LET cl == call[c]
        m == ManifestURL(cl.given)
        ms == ManifestSigURL(cl.given)
        s == SigURL(cl.given)
    IN
    cl.verifier = "composite"
    => /\ cl.fetchLog \in {<<>>, <<m>>, <<m, ms>>, <<s>>, <<m, s>>, <<m, ms, s>>}
       /\ Len(cl.fetchLog) <= 3
       /\ Len(cl.fetchOk) = Len(cl.fetchLog)
       /\ ms \in Requested(cl) => cl.fetchOk[1]
       /\ s \in Requested(cl) => cl.manErr \notin {NotRun, OK}

C13_Witness ==
  \E c \in Callers :
    LET cl == call[c] IN
    /\ Done(c)
    /\ cl.verifier = "composite"
    /\ cl.fetchLog = <<ManifestURL(cl.given), ManifestSigURL(cl.given), SigURL(cl.given)>>
    /\ cl.fetchOk = <<TRUE, TRUE, TRUE>>


\* the rest of C14, common to the claim and its amendment: a build call
\* requests nothing but <base>.sig, compares no digest, and, when the fetch
\* and the reads succeed, returns nil exactly if the fetched signature is
\* valid under the keyring over the bytes it read from the local copy
C14_BuildChecksSignatureOnly(c) ==
  LET cl == call[c]
      read == RestOf(localCopy[c].content, cl.startOffset)
  IN /\ Requested(cl) \subseteq {SigURL(cl.given)}
     /\ cl.manifestBytes = None
     /\ cl.result \notin {DigestMismatch, ParseError}
     /\ (cl.fetchOk = <<TRUE>> /\ cl.buildFault = "none")
          => /\ cl.signedBytes = Some(read)
             /\ cl.result = OK <=> SignatureValid(The(cl.sigData), read)

\* C14 as claimed: a build call with a recognized scheme issues exactly one
\* fetch request, for <base>.sig, (and the rest).
C14_Original ==
  \A c \in Callers :
    (/\ Done(c)
     /\ call[c].verifier = "build"
     /\ call[c].given.Scheme \in ClaimedSchemes)
    => /\ call[c].fetchLog = <<SigURL(call[c].given)>>
       /\ C14_BuildChecksSignatureOnly(c)

\* C14 as amended: a build call with a recognized scheme issues at most one
\* fetch request, for <base>.sig: exactly one when ioutil.TempDir succeeds
\* and none when it fails (the call then returns before fetching); the rest
\* as claimed.
C14_BuildVerifier ==
  \A c \in Callers :
    (/\ Done(c)
     /\ call[c].verifier = "build"
     /\ call[c].given.Scheme \in ClaimedSchemes)
    => /\ call[c].fetchLog = IF call[c].buildFault = "tempdir" THEN <<>>
                             ELSE <<SigURL(call[c].given)>>
       /\ call[c].buildFault = "tempdir" => call[c].result = TempDirError
       /\ C14_BuildChecksSignatureOnly(c)

C14_Witness ==
  \E c \in Callers :
    /\ Done(c)
    /\ call[c].verifier = "build"
    /\ call[c].fetchLog = <<SigURL(call[c].given)>>
    /\ call[c].reads = 1
    /\ localCopy[c].content # <<>>
    /\ The(call[c].sigData).enc = "armored"
    /\ call[c].result = OK


\* C15: every URL handed to CopyLocal is the caller's artifactLocation with
\* ".manifest", ".manifest.sig" or ".sig" appended to its path and with the
\* same scheme, host, query and fragment; the caller's artifactLocation is
\* never changed, so that a composite's build strategy requests <base>.sig.
C15_CompanionURLs ==
  \A c \in Callers :
    LET cl == call[c] IN
    /\ cl.artifactLocation = cl.given
    /\ \A i \in 1..Len(cl.fetchLog) :
         LET u == cl.fetchLog[i] IN
         /\ u.Scheme = cl.given.Scheme
         /\ u.Host = cl.given.Host
         /\ u.RawQuery = cl.given.RawQuery
         /\ u.Fragment = cl.given.Fragment
         /\ u.Path \in {cl.given.Path \o ".manifest",
                        cl.given.Path \o ".manifest.sig",
                        cl.given.Path \o ".sig"}
    /\ cl.sigURI # EmptyURL => cl.sigURI.Path = cl.given.Path \o ".sig"

C15_Witness ==
  \E c \in Callers :
    LET cl == call[c] IN
    /\ Done(c)
    /\ cl.verifier = "composite"
    /\ cl.given.RawQuery # "" /\ cl.given.Fragment # ""
    /\ Len(cl.fetchLog) = 3
    /\ cl.fetchLog[2].Path = cl.given.Path \o ".manifest.sig"
    /\ cl.fetchLog[3].Path = cl.given.Path \o ".sig"
    /\ cl.artifactLocation = cl.given


\* C16: when the manifest published for the artifact has no artifact_sha
\* key, or an empty one, the manifest verifier never returns nil, whatever
\* the local copy holds and however the manifest is signed.
C16_EmptyDigestNeverAccepted ==
  \A c \in Callers :
    LET cl == call[c]
        m == Fetch(ManifestURL(cl.given))
    IN
    (/\ cl.verifier \in {"manifest", "composite"}
     /\ m # None
     /\ ~yamlUnmarshal(The(m)).err
     /\ yamlUnmarshal(The(m)).ArtifactDigest = <<>>)
    => /\ cl.manErr # OK
       /\ cl.verifier = "manifest" => cl.result # OK

C16_Witness ==
  \E c \in Callers :
    LET cl == call[c] IN
    /\ Done(c)
    /\ cl.verifier = "manifest"
    /\ cl.manifestBytes = Some(ManifestFor(<<>>))
    /\ cl.signatureBytes # None
    /\ SignatureValid(The(cl.signatureBytes), The(cl.manifestBytes))
    /\ RestOf(localCopy[c].content, cl.startOffset) = <<>>
    /\ cl.reads = 1
    /\ cl.result = DigestMismatch

\* C17: verifySigned gives the same answer for a signature and for the same
\* signature in ASCII armor, and answers nothing but nil or SignatureInvalid:
\* for every signature a call downloaded and every payload it could be
\* checked against, and in the answer the call itself got.
C17_ArmorIrrelevant ==
  \A c \in Callers :
    LET cl == call[c]
        sigs == cl.signatureBytes \cup cl.sigData
        payloads == cl.manifestBytes \cup cl.signedBytes
                      \cup {localCopy[c].content} \cup {s.over : s \in sigs}
    IN
    /\ \A keyring \in SUBSET {TrustedKey, UntrustedKey}, s \in sigs, p \in payloads :
         LET raw == [s EXCEPT !.enc = "raw"]
             armored == [s EXCEPT !.enc = "armored"]
         IN /\ verifySigned(keyring, p, armored) = OK
                 <=> verifySigned(keyring, p, raw) = OK
            /\ verifySigned(keyring, p, s) \in {OK, SignatureInvalid}
            /\ verifySigned(keyring, p, raw) = OK
                 <=> (s.key \in keyring /\ s.over = p)
    /\ (cl.verifier = "build" /\ cl.signedBytes # None /\ cl.pc \in {"b_defer", "done"})
         => LET s == The(cl.sigData) IN
            (cl.err = OK) <=>
              (s.enc \in {"raw", "armored"} /\ s.key \in Keyring
                 /\ s.over = The(cl.signedBytes))

C17_Witness ==
  \E c \in Callers :
    LET cl == call[c] IN
    /\ Done(c)
    /\ cl.verifier = "build"
    /\ cl.signedBytes # None
    /\ The(cl.sigData).enc = "armored"
    /\ The(cl.sigData).key \in Keyring
    /\ The(cl.sigData).over = The(cl.signedBytes)
    /\ cl.result = OK

\* What a successful call authenticated: a manifest validly signed by a
\* keyring key whose digest is that of `bytes`, or a valid keyring
\* signature over `bytes`.
ManifestAuthenticates(c, bytes) ==
  LET cl == call[c] IN
  /\ cl.manifestBytes # None /\ cl.signatureBytes # None
  /\ SignatureValid(The(cl.signatureBytes), The(cl.manifestBytes))
  /\ ~yamlUnmarshal(The(cl.manifestBytes)).err
  /\ yamlUnmarshal(The(cl.manifestBytes)).ArtifactDigest = Sha256Hex(bytes)

BuildAuthenticates(c, bytes) ==
  LET cl == call[c] IN
  /\ cl.sigData # None
  /\ SignatureValid(The(cl.sigData), bytes)

Succeeded(c) ==
  /\ Done(c)
  /\ call[c].verifier \in {"manifest", "build", "composite"}
  /\ call[c].result = OK

\* C18 as stated: whenever one of the three verifiers returns nil, the whole
\* local file is authenticated, whatever the read position at the start.
C18_Original ==
  \A c \in Callers :
    Succeeded(c) =>
      \/ ManifestAuthenticates(c, localCopy[c].content)
      \/ BuildAuthenticates(c, localCopy[c].content)

\* C18: whenever one of the three verifiers returns nil, the authenticated
\* bytes are those from the read position at which the succeeding strategy
\* started to the end of the file: the position the call started at for the
\* manifest verifier and the build verifier, and offset 0 for the build
\* strategy of the composite, which rewinds first.  So the whole file is
\* authenticated when the call started at offset 0, and always when the
\* composite succeeds through its build strategy.
C18_AuthenticatedFromStart ==
  \A c \in Callers :
    LET cl == call[c]
        content == localCopy[c].content
        fromStart == RestOf(content, cl.startOffset)
    IN
    Succeeded(c) =>
      /\ cl.verifier = "manifest" => ManifestAuthenticates(c, fromStart)
      /\ cl.verifier = "build" => BuildAuthenticates(c, fromStart)
      /\ cl.verifier = "composite" =>
           IF cl.buildInvoked
             THEN cl.buildStartOffset = 0 /\ BuildAuthenticates(c, content)
             ELSE ManifestAuthenticates(c, fromStart)
      /\ cl.startOffset = 0 =>
           ManifestAuthenticates(c, content) \/ BuildAuthenticates(c, content)

C18_Witness ==
  \E c \in Callers :
    LET cl == call[c] IN
    /\ Succeeded(c)
    /\ cl.verifier = "composite"
    /\ cl.buildInvoked
    /\ cl.startOffset > 0
    /\ localCopy[c].content # <<>>
    /\ BuildAuthenticates(c, localCopy[c].content)


\* the second of two consecutive calls has returned
Repeated(c) ==
  /\ Done(c)
  /\ call[c].prev.called
  /\ call[c].verifier \in {"manifest", "build", "composite"}

\* no local operation (TempDir, ReadFile, ReadAll, Seek) failed in the call
NoLocalFailure(r) ==
  r.manFault = "none" /\ ~r.seekFailed /\ r.buildFault = "none"

\* C19 as stated: the second of two consecutive calls by the same verifier,
\* with the same local copy, location and remote content, returns what the
\* first returned (no local operation failing in either call).
C19_Original ==
  \A c \in Callers :
    (Repeated(c) /\ NoLocalFailure(call[c]) /\ NoLocalFailure(call[c].prev))
      => call[c].result = call[c].prev.result

\* C19: the second of two consecutive calls returns what the first returned
\* when the local operations fail or succeed alike in both and the read
\* position at the start of the second call is the one the first started at
\* (the first call returned before reading the stream, or the stream was at
\* end of file already), and also, for the composite, when the manifest
\* strategy of the first call failed on something other than the digest
\* comparison, since the fallback rewinds the stream.
C19_RepeatFromSamePosition ==
  \A c \in Callers :
    LET cl == call[c] IN
    (/\ Repeated(c)
     /\ cl.manFault = cl.prev.manFault
     /\ cl.seekFailed = cl.prev.seekFailed
     /\ cl.buildFault = cl.prev.buildFault
     /\ \/ cl.startOffset = cl.prev.startOffset
        \/ /\ cl.verifier = "composite"
           /\ cl.prev.manErr \notin {OK, DigestMismatch})
    => cl.result = cl.prev.result

C19_Witness ==
  \E c \in Callers :
    LET cl == call[c] IN
    /\ Repeated(c)
    /\ cl.verifier = "composite"
    /\ NoLocalFailure(cl) /\ NoLocalFailure(cl.prev)
    /\ localCopy[c].content # <<>>
    /\ cl.prev.startOffset = 0
    /\ cl.startOffset = Len(localCopy[c].content)
    /\ cl.buildInvoked
    /\ cl.prev.result = OK
    /\ cl.result = OK

====
